---- MODULE Spec2Model ----
(***************************************************************************)
(* Vocalis: voice dictation of structured medical documents.               *)
(*                                                                         *)
(* The repository holds three front ends that collect a record over        *)
(* several turns, and the services they use:                               *)
(*   - VoiceReportCreator (React): accumulates the dictated transcript,    *)
(*     sends it to the LLM endpoint (server/index.js), validates the       *)
(*     answer with RAGService and shows / exports the report;              *)
(*   - ChatScreen (Flutter): sends chat messages to the prescription       *)
(*     backend and keeps the PrescriptionData it answers with;             *)
(*   - ReportCreator (React): the form-based editor over the report        *)
(*     templates;                                                          *)
(*   - processWithLocalLLM / processTranscriptLocally: the local           *)
(*     deterministic extraction of LLMService;                             *)
(*   - RAGService.validateExtractedData, also called on its own over a     *)
(*     set of records.                                                     *)
(* One of them runs at a time; `app` says which.                           *)
(*                                                                         *)
(* Text is modelled at the level of utterances: a transcript is a sequence *)
(* of utterances (the final results of the speech API), joined by single   *)
(* spaces.  A field value is a sequence of text pieces, so that a regular  *)
(* expression capturing "up to the end of the text" yields the rest of the *)
(* matching utterance followed by all later utterances.                    *)
(***************************************************************************)
EXTENDS Integers, Sequences, FiniteSets, TLC

(***************************************************************************)
(* Bounds of the model                                                     *)
(***************************************************************************)
MaxFinal == 2
MaxEdits == 1
MaxResets == 1
MaxTurns == 3
MaxPdf == 2
MaxLocalLen == 2
MaxMerges == 2
MaxConversations == 2
MaxFormFinal == 1

(***************************************************************************)
(* Values                                                                  *)
(***************************************************************************)
\* JavaScript undefined / Dart null: the key has no value
ABSENT == <<"<undefined>">>
\* the empty string
EMPTY == <<>>
\* the missing-sentinel of the extraction prompt
MANQUANT == <<"[MANQUANT]">>

\* JavaScript truthiness of a field value (!value is Falsy)
Falsy(v) == v = ABSENT \/ v = EMPTY

(***************************************************************************)
(* Utterances: the final results the speech API delivers.  Dictated speech *)
(* carries no punctuation, so no utterance contains a period.              *)
(***************************************************************************)
UPatientFull == "patient Jean Dupont dossier 12345 né le 01/02/1980 indication douleur abdominale résultats foie de taille normale"
UPatientB == "patient Marie Curie"
UConclusion == "conclusion examen normal sans anomalie décelable"
UContrast == "avec produit de contraste"

\* what the user dictates to VoiceReportCreator
Utterances == {UPatientFull, UPatientB, UConclusion}

\* String.length of each utterance
CharLen(u) ==
  CASE u = UPatientFull -> 113
    [] u = UPatientB -> 19
    [] u = UConclusion -> 48
    [] u = UContrast -> 25

RECURSIVE SumLen(_)
SumLen(s) == IF s = <<>> THEN 0 ELSE CharLen(Head(s)) + SumLen(Tail(s))

\* length of the utterances of s joined by single spaces
JoinedLen(s) == IF s = <<>> THEN 0 ELSE SumLen(s) + Len(s) - 1

(***************************************************************************)
(* Field paths of the extracted report                                     *)
(***************************************************************************)
FPatientName == "patientInfo.patientName"
FPatientId == "patientInfo.patientId"
FBirthDate == "patientInfo.birthDate"
FExamDate == "patientInfo.examDate"
FExamType == "examInfo.examType"
FIndication == "examInfo.indication"
FContrast == "examInfo.contrast"
FFieldStrength == "examInfo.fieldStrength"
FProbe == "examInfo.probe"
FTechnique == "technique"
FFindings == "results.findings"
FMeasurements == "results.measurements"
FConclusion == "conclusion"

FieldPaths == {FPatientName, FPatientId, FBirthDate, FExamDate, FExamType,
               FIndication, FContrast, FFieldStrength, FProbe, FTechnique,
               FFindings, FMeasurements, FConclusion}

\* const [reportData, setReportData] = useState({})
EmptyObject == [f \in FieldPaths |-> ABSENT]

(***************************************************************************)
(* Regular expressions of the recognizers, over utterances.                *)
(* PatIn(pat, u)  : the text group 1 captures inside utterance u when the  *)
(*                  pattern starts to match in u, "" when it does not.     *)
(* PatToEnd(pat)  : the group goes on over the following text up to the    *)
(*                  next period, that is to the end of a dictated text.    *)
(* PatHasGroup    : the pattern has a capture group 1.                     *)
(***************************************************************************)
PatName == "patient[e]?\\s+(?:nommé[e]?\\s+)?([A-Z][a-zà-ÿ]+\\s+[A-Z][a-zà-ÿ]+)"
PatId == "dossier\\s+(?:numéro\\s+)?(\\d+)"
PatBirth == "né[e]?\\s+le\\s+(\\d{1,2}[/-]\\d{1,2}[/-]\\d{4})"
PatIndication == "indication[s]?\\s*:?\\s*([^.]+)"
PatFindingsServer == "(?:constatation[s]?|résultat[s]?|on\\s+observe)\\s*:?\\s*(.+)"
PatFindingsLocal == "(?:constatation[s]?|résultat[s]?)\\s*:?\\s*([^.]+(?:\\.[^.]+)*)"
PatMeasurements == "mesure[s]?\\s*:?\\s*([^.]+(?:\\.[^.]+)*)"
PatConclusionServer == "(?:conclusion[s]?|en\\s+conclusion)\\s*:?\\s*(.+)"
PatConclusionLocal == "conclusion[s]?\\s*:?\\s*([^.]+(?:\\.[^.]+)*)"
PatTechnique == "technique[s]?\\s*:?\\s*([^.]+(?:\\.[^.]+)*)"
PatContrastLocal == "(?:avec|sans)\\s+(?:injection\\s+de\\s+)?produit\\s+de\\s+contraste"

PatIn(pat, u) ==
  CASE pat = PatName /\ u = UPatientFull -> "Jean Dupont"
    [] pat = PatName /\ u = UPatientB -> "Marie Curie"
    [] pat = PatId /\ u = UPatientFull -> "12345"
    [] pat = PatBirth /\ u = UPatientFull -> "01/02/1980"
    [] pat = PatIndication /\ u = UPatientFull -> "douleur abdominale résultats foie de taille normale"
    [] pat \in {PatFindingsServer, PatFindingsLocal} /\ u = UPatientFull -> "foie de taille normale"
    [] pat \in {PatConclusionServer, PatConclusionLocal} /\ u = UConclusion -> "examen normal sans anomalie décelable"
    [] pat = PatContrastLocal /\ u = UContrast -> "avec produit de contraste"
    [] OTHER -> ""

PatToEnd(pat) ==
  pat \in {PatIndication, PatFindingsServer, PatFindingsLocal, PatMeasurements,
           PatConclusionServer, PatConclusionLocal, PatTechnique}

PatHasGroup(pat) == pat # PatContrastLocal

\* index of the utterance in which the leftmost match of pat starts, 0 if none
MatchIndex(text, pat) ==
  IF \E i \in 1..Len(text) : PatIn(pat, text[i]) # ""
  THEN CHOOSE i \in 1..Len(text) :
         /\ PatIn(pat, text[i]) # ""
         /\ \A j \in 1..(i - 1) : PatIn(pat, text[j]) = ""
  ELSE 0

\* match[1].trim() of text.match(pat), for a pattern with a group
Group1(text, pat) ==
  LET i == MatchIndex(text, pat)
  IN IF PatToEnd(pat)
     THEN <<PatIn(pat, text[i])>> \o SubSeq(text, i + 1, Len(text))
     ELSE <<PatIn(pat, text[i])>>

(***************************************************************************)
(* server/index.js: the development LLM endpoint                           *)
(***************************************************************************)
\* extractFromTranscript(transcript, pattern) || fallback
extractFromTranscript(text, pat, fallback) ==
  IF MatchIndex(text, pat) = 0 THEN fallback ELSE Group1(text, pat)

KnownTechniqueTypes == {"scanner", "mri", "echo"}

generateTechnique(examType) ==
  IF examType \in KnownTechniqueTypes
  THEN <<"technique-" \o examType>>
  ELSE <<"Technique standard.">>

\* the extractedData of POST /api/llm/process-transcript
ServerExtract(text, examType) ==
  [f \in FieldPaths |->
     CASE f = FPatientName -> extractFromTranscript(text, PatName, MANQUANT)
       [] f = FPatientId -> extractFromTranscript(text, PatId, MANQUANT)
       [] f = FBirthDate -> extractFromTranscript(text, PatBirth, MANQUANT)
       [] f = FExamDate -> <<"today">>
       [] f = FExamType -> <<examType>>
       [] f = FIndication -> extractFromTranscript(text, PatIndication, MANQUANT)
       [] f = FContrast -> <<"Aucun">>
       [] f = FTechnique -> generateTechnique(examType)
       [] f = FFindings -> extractFromTranscript(text, PatFindingsServer, MANQUANT)
       [] f = FMeasurements -> extractFromTranscript(text, PatMeasurements, EMPTY)
       [] f = FConclusion -> extractFromTranscript(text, PatConclusionServer, MANQUANT)
       [] OTHER -> ABSENT]

(***************************************************************************)
(* POST /api/llm/correct-enhance and the values a user can type into an    *)
(* edited field                                                            *)
(***************************************************************************)
EditValues == {"", "x9"}

\* collapse white space, capitalise sentence starts, trim, upper-case the
\* first character
CorrectText(text) ==
  CASE text = "x9" -> "X9"
    [] OTHER -> text

\* a string as a field value
AsValue(text) == IF text = "" THEN EMPTY ELSE <<text>>

(***************************************************************************)
(* RAGService: knowledge base and validation                               *)
(***************************************************************************)
Critique == "critique"
Haute == "haute"
Moyenne == "moyenne"

NoValidation == "none"
ValName == "^[A-Za-zÀ-ÿ\\s-]+$"
ValId == "^[A-Z0-9]+$"
ValBirth == "^\\d{2}/\\d{2}/\\d{4}$"

FieldDef(path, importance, validation) ==
  [path |-> path, importance |-> importance, validation |-> validation]

\* RAGService.knowledgeBase[examType].requiredFields, in insertion order
KnownExamTypes == {"scanner", "mri", "echo"}

requiredFields(examType) ==
  CASE examType = "scanner" ->
         << FieldDef(FPatientName, Critique, ValName),
            FieldDef(FPatientId, Critique, ValId),
            FieldDef(FBirthDate, Critique, ValBirth),
            FieldDef(FIndication, Critique, NoValidation),
            FieldDef(FTechnique, Haute, NoValidation),
            FieldDef(FFindings, Critique, NoValidation),
            FieldDef(FConclusion, Critique, NoValidation) >>
    [] examType = "mri" ->
         << FieldDef(FPatientName, Critique, NoValidation),
            FieldDef(FPatientId, Critique, NoValidation),
            FieldDef(FIndication, Critique, NoValidation),
            FieldDef(FFieldStrength, Haute, NoValidation),
            FieldDef(FTechnique, Haute, NoValidation),
            FieldDef(FFindings, Critique, NoValidation),
            FieldDef(FConclusion, Critique, NoValidation) >>
    [] examType = "echo" ->
         << FieldDef(FPatientName, Critique, NoValidation),
            FieldDef(FIndication, Critique, NoValidation),
            FieldDef(FProbe, Moyenne, NoValidation),
            FieldDef(FFindings, Critique, NoValidation),
            FieldDef(FMeasurements, Haute, NoValidation),
            FieldDef(FConclusion, Critique, NoValidation) >>
    [] OTHER -> << >>

\* pieces made of letters, spaces and hyphens only
AlphaPieces ==
  {"Jean Dupont", "Marie Curie",
   "douleur abdominale résultats foie de taille normale", "foie de taille normale",
   "examen normal sans anomalie décelable", "Aucun", "today",
   UPatientB, UConclusion, UContrast}

\* pieces made of upper-case letters and digits only
UpperAlnumPieces == {"12345", "X9"}

\* pieces of the form dd/dd/dddd
DatePieces == {"01/02/1980"}

\* fieldDef.validation.test(value)
RegexTest(validation, value) ==
  CASE validation = ValName -> value # EMPTY /\ \A i \in 1..Len(value) : value[i] \in AlphaPieces
    [] validation = ValId -> Len(value) = 1 /\ value[1] \in UpperAlnumPieces
    [] validation = ValBirth -> Len(value) = 1 /\ value[1] \in DatePieces
    [] OTHER -> TRUE

\* the entries pushed to errors / warnings
MissingError(def) == [field |-> def.path, kind |-> "obligatoire", severity |-> "error"]
FormatError(def) == [field |-> def.path, kind |-> "format", severity |-> "error"]
MissingWarning(def) == [field |-> def.path, kind |-> "recommande", severity |-> "warning"]
GeneralError == [field |-> "general", kind |-> "traitement", severity |-> "error"]

\* validationWarnings when validateExtractedData returns no warnings key
UNDEFINED_LIST == <<[field |-> "<undefined>", kind |-> "<undefined>", severity |-> "<undefined>"]>>

\* !value || value === '[MANQUANT]'
IsMissing(value) == Falsy(value) \/ value = MANQUANT

\* the error list with the format test of a present value left out
RECURSIVE ErrorsOfFormatUnchecked(_, _)
ErrorsOfFormatUnchecked(defs, data) ==
  IF defs = << >> THEN << >>
  ELSE LET def == Head(defs)
           here == IF IsMissing(data[def.path]) /\ def.importance = Critique
                   THEN <<MissingError(def)>>
                   ELSE << >>
       IN here \o ErrorsOfFormatUnchecked(Tail(defs), data)

RECURSIVE ErrorsOf(_, _)
ErrorsOf(defs, data) ==
  IF defs = << >> THEN << >>
  ELSE LET def == Head(defs)
           value == data[def.path]
           here == IF IsMissing(value)
                   THEN IF def.importance = Critique THEN <<MissingError(def)>> ELSE << >>
                   ELSE IF def.validation # NoValidation /\ ~RegexTest(def.validation, value)
                        THEN <<FormatError(def)>>
                        ELSE << >>
       IN here \o ErrorsOf(Tail(defs), data)

RECURSIVE WarningsOf(_, _)
WarningsOf(defs, data) ==
  IF defs = << >> THEN << >>
  ELSE LET def == Head(defs)
           here == IF IsMissing(data[def.path]) /\ def.importance = Haute
                   THEN <<MissingWarning(def)>>
                   ELSE << >>
       IN here \o WarningsOf(Tail(defs), data)

\* validateExtractedData with a missing recommended field counted as an error
validateExtractedDataBlockingWarnings(data, examType) ==
  IF examType \notin KnownExamTypes
  THEN [isValid |-> TRUE, errors |-> << >>, warnings |-> UNDEFINED_LIST]
  ELSE LET errors == ErrorsOf(requiredFields(examType), data)
           warnings == WarningsOf(requiredFields(examType), data)
       IN [isValid |-> Len(errors) = 0 /\ Len(warnings) = 0,
           errors |-> errors,
           warnings |-> warnings]

\* RAGService.validateExtractedData(data, examType)
validateExtractedData(data, examType) ==
  IF examType \notin KnownExamTypes
  THEN [isValid |-> TRUE, errors |-> << >>, warnings |-> UNDEFINED_LIST]
  ELSE LET errors == ErrorsOf(requiredFields(examType), data)
       IN [isValid |-> Len(errors) = 0,
           errors |-> errors,
           warnings |-> WarningsOf(requiredFields(examType), data)]

(***************************************************************************)
(* State                                                                   *)
(***************************************************************************)
VARIABLES
  app,                \* the mounted screen: "voice", "chat", "form", "local"
  printed,            \* the document this step delivered (doc.save, download), << >> if none
  signal,             \* the alert / snack bar this step raised, NoSignal if none
  endpoint,           \* the remote service: "up", or "stalled" once it stops answering
  \* --- VoiceReportCreator
  reportType,         \* useParams().reportType
  reportData,         \* the extracted report (record of the session)
  fullTranscript,     \* the accumulated dictation
  isProcessing,       \* busy flag
  validationErrors,
  validationWarnings,
  showPreview,
  saveDialog,
  mounted,            \* FALSE once a render has thrown
  calls,              \* processTranscript calls awaiting their fetch
  edits,              \* handleEditField calls awaiting correctAndEnhance
  saving,             \* handleSave awaiting its timer
  applied,            \* id of the processTranscript call whose result was applied last
  nCalls, nEdits, nResets,
  \* --- useSpeechRecognition
  transcript,         \* finalTranscriptRef.current / transcript
  isListening,
  interimTranscript,  \* the interim text of the result in progress
  nFinal,
  \* --- ChatScreen (Flutter) and its backend session
  currentStage,       \* _currentStage
  prescriptionData,   \* _prescriptionData
  isLoading,          \* _isLoading
  messages,           \* the tail of _messages: what the last handler appended
  generatedPrescription,
  signed,             \* the signature pad holds a signature
  chats,              \* _sendMessage calls awaiting _apiService.chat
  pdfCalls,           \* _generateAndDownloadPdf calls and the await each is at
  session,            \* the backend's stored prescription of the conversation
  nTurns,
  conv,               \* the conversation on screen: its number and the user entries of _messages
  \* --- ReportCreator (the form screen)
  formData,           \* its reportData
  activeField,        \* the field dictation goes to, NoField when none
  formListening,      \* its recognition: "off", "on", or "stopping" between stop() and onend
  formTranscript,     \* the transcript of its useSpeechRecognition
  dictatingFor,       \* the field the user speaks for: the one whose microphone was pressed last
  nFormFinal,
  \* --- processWithLocalLLM
  localInput,         \* the transcript handed to it
  localResult,        \* what the call produced
  \* --- RAGService.validateExtractedData called on its own
  valType,            \* its examType
  valInput,           \* its data
  valResult,          \* what it returned
  \* --- PrescriptionData.copyWith called on its own
  mergeThis,          \* the record it is called on
  mergeArgs,          \* its named arguments (null when not given)
  mergeOut,           \* the records returned by the successive calls
  \* --- PrescriptionData.getMissingRequiredFields / isComplete called on their own
  compInput,          \* the record they are called on
  compResult          \* what they returned

NoSignal == "none"

voiceVars == <<reportType, reportData, fullTranscript, isProcessing, validationErrors,
               validationWarnings, showPreview, saveDialog, mounted, calls, edits,
               saving, applied, nCalls, nEdits, nResets>>
speechVars == <<transcript, isListening, interimTranscript, nFinal>>
chatVars == <<currentStage, prescriptionData, isLoading, messages, generatedPrescription,
              signed, chats, pdfCalls, session, nTurns, conv>>
\* the state of the screens other than VoiceReportCreator
formVars == <<formData, activeField, formListening, formTranscript, dictatingFor, nFormFinal>>
localVars == <<localInput, localResult>>
valVars == <<valType, valInput, valResult>>
mergeVars == <<mergeThis, mergeArgs, mergeOut>>
compVars == <<compInput, compResult>>
otherVars == <<chatVars, formVars, localVars, valVars, mergeVars, compVars>>

\* the route parameter: the dashboard types, and a type the knowledge base
\* does not know (reportTypeConfig lists 'irm')
ReportTypes == {"scanner", "echo", "irm"}

\* newFullTranscript.length > 50
ProcessThreshold == 50

VoiceInit ==
  /\ reportType \in (IF app = "voice" THEN ReportTypes ELSE {"scanner"})
  /\ reportData = EmptyObject
  /\ fullTranscript = << >>
  /\ isProcessing = FALSE
  /\ validationErrors = << >>
  /\ validationWarnings = << >>
  /\ showPreview = FALSE
  /\ saveDialog = FALSE
  /\ mounted = TRUE
  /\ calls = {}
  /\ edits = {}
  /\ saving = FALSE
  /\ applied = 0
  /\ nCalls = 0
  /\ nEdits = 0
  /\ nResets = 0

SpeechInit ==
  /\ transcript = << >>
  /\ isListening = FALSE
  /\ interimTranscript = << >>
  /\ nFinal = 0

\* the render throws on validationWarnings.length when the warnings are
\* undefined and there is no error to short-circuit the test
RenderOk(errors, warnings) == Len(errors) > 0 \/ warnings # UNDEFINED_LIST

\* the user can act on the screen: it is rendered and no modal dialog is open
VoiceUsable == app = "voice" /\ mounted /\ ~saveDialog

(***************************************************************************)
(* useSpeechRecognition                                                    *)
(***************************************************************************)
\* startListening followed by recognition.onstart
startListening ==
  /\ ~isListening
  /\ isListening' = TRUE
  /\ UNCHANGED <<transcript, interimTranscript, nFinal>>

\* recognition.onresult with one final result u
onresult(u) ==
  /\ isListening
  /\ nFinal < MaxFinal
  /\ nFinal' = nFinal + 1
  /\ transcript' = Append(transcript, u)
  /\ interimTranscript' = << >>
  /\ UNCHANGED isListening

\* the words recognized so far of a phrase that is not final yet
UInterim == "patient Mar"

\* recognition.onresult with an interim result only: finalText is empty
onresultInterim ==
  /\ isListening
  /\ interimTranscript' = <<UInterim>>
  /\ UNCHANGED <<transcript, isListening, nFinal>>

(***************************************************************************)
(* VoiceReportCreator                                                      *)
(***************************************************************************)
\* the accumulation effect without its resetTranscript()
AccumulateEffectKeepingTranscript ==
  IF transcript # << >>
  THEN LET newFullTranscript == fullTranscript \o transcript
           length == JoinedLen(fullTranscript) + 1 + SumLen(transcript) + Len(transcript)
       IN /\ fullTranscript' = newFullTranscript
          /\ transcript' = transcript
          /\ IF length > ProcessThreshold
             THEN /\ isProcessing' = TRUE
                  /\ nCalls' = nCalls + 1
                  /\ calls' = calls \cup {[id |-> nCalls + 1, text |-> newFullTranscript]}
             ELSE UNCHANGED <<isProcessing, nCalls, calls>>
  ELSE UNCHANGED <<fullTranscript, transcript, isProcessing, nCalls, calls>>

\* the accumulation effect, run by the render in which listening has ended
\* with a non-empty transcript; it starts processTranscript up to its fetch
AccumulateEffect ==
  IF transcript # << >>
  THEN LET newFullTranscript == fullTranscript \o transcript
           length == JoinedLen(fullTranscript) + 1 + SumLen(transcript) + Len(transcript)
       IN /\ fullTranscript' = newFullTranscript
          /\ transcript' = << >>
          /\ IF length > ProcessThreshold
             THEN /\ isProcessing' = TRUE
                  /\ nCalls' = nCalls + 1
                  /\ calls' = calls \cup {[id |-> nCalls + 1, text |-> newFullTranscript]}
             ELSE UNCHANGED <<isProcessing, nCalls, calls>>
  ELSE UNCHANGED <<fullTranscript, transcript, isProcessing, nCalls, calls>>

\* stopListening, then recognition.onend and the effect that follows it
stopListening ==
  /\ isListening
  /\ isListening' = FALSE
  /\ interimTranscript' = << >>
  /\ AccumulateEffect
  /\ UNCHANGED nFinal

OnResult ==
  /\ app = "voice" /\ mounted
  /\ \/ \E u \in Utterances : onresult(u)
     \/ onresultInterim
  /\ printed' = << >> /\ signal' = NoSignal
  /\ UNCHANGED <<app, endpoint, otherVars, reportType, reportData, fullTranscript, isProcessing,
                 validationErrors, validationWarnings, showPreview, saveDialog, mounted,
                 calls, edits, saving, applied, nCalls, nEdits, nResets>>

\* handleRecordToggle
handleRecordToggle ==
  /\ VoiceUsable
  /\ IF isListening
     THEN stopListening
     ELSE startListening /\ UNCHANGED <<fullTranscript, isProcessing, nCalls, calls>>
  /\ printed' = << >> /\ signal' = NoSignal
  /\ UNCHANGED <<app, endpoint, otherVars, reportType, reportData, validationErrors,
                 validationWarnings, showPreview, saveDialog, mounted, edits, saving,
                 applied, nEdits, nResets>>

\* the fields handlePrint writes into the PDF
PrintedFields == {FPatientName, FPatientId, FBirthDate, FExamDate, FIndication,
                  FTechnique, FFindings, FConclusion}

\* `${value || ''}`
OrEmpty(value) == IF Falsy(value) THEN EMPTY ELSE value

\* processTranscript after its await: the fetch answered with the extraction
ProcessTranscriptOk ==
  /\ app = "voice" /\ mounted
  /\ endpoint = "up"
  /\ \E c \in calls :
       /\ LET extractedData == ServerExtract(c.text, reportType)
              validation == validateExtractedData(extractedData, reportType)
          IN /\ validationErrors' = validation.errors
             /\ validationWarnings' = validation.warnings
             /\ reportData' = extractedData
             /\ showPreview' = IF validation.isValid THEN TRUE ELSE showPreview
             /\ mounted' = RenderOk(validation.errors, validation.warnings)
       /\ isProcessing' = FALSE
       /\ calls' = calls \ {c}
       /\ applied' = c.id
  /\ printed' = << >> /\ signal' = NoSignal
  /\ UNCHANGED <<app, endpoint, otherVars, reportType, fullTranscript, saveDialog, edits, saving,
                 nCalls, nEdits, nResets, speechVars>>

\* a failed processTranscript that would also drop the record
ProcessTranscriptErrorDroppingRecord ==
  /\ app = "voice" /\ mounted
  /\ endpoint = "up"
  /\ \E c \in calls :
       /\ validationErrors' = <<GeneralError>>
       /\ reportData' = EmptyObject
       /\ isProcessing' = FALSE
       /\ calls' = calls \ {c}
  /\ printed' = << >> /\ signal' = NoSignal
  /\ UNCHANGED <<app, endpoint, otherVars, reportType, fullTranscript, validationWarnings,
                 showPreview, saveDialog, mounted, edits, saving, applied,
                 nCalls, nEdits, nResets, speechVars>>

\* processTranscript after its await: the fetch rejected or answered not ok;
\* LLMService.processTranscript rethrows and the catch block reports it
ProcessTranscriptError ==
  /\ app = "voice" /\ mounted
  /\ endpoint = "up"
  /\ \E c \in calls :
       /\ validationErrors' = <<GeneralError>>
       /\ isProcessing' = FALSE
       /\ calls' = calls \ {c}
  /\ printed' = << >> /\ signal' = NoSignal
  /\ UNCHANGED <<app, endpoint, otherVars, reportType, reportData, fullTranscript, validationWarnings,
                 showPreview, saveDialog, mounted, edits, saving, applied,
                 nCalls, nEdits, nResets, speechVars>>

\* the field whose correction the model follows
EditableFields == {FPatientName}

\* handleEditField up to its await; the closure keeps the reportData it saw.
\* The component defines the handler but binds it to no control of the
\* rendered screen.
handleEditFieldStart ==
  /\ VoiceUsable
  /\ nEdits < MaxEdits
  /\ \E fieldPath \in EditableFields, newValue \in EditValues :
       edits' = edits \cup {[fieldPath |-> fieldPath, newValue |-> newValue,
                             currentData |-> reportData]}
  /\ nEdits' = nEdits + 1
  /\ printed' = << >> /\ signal' = NoSignal
  /\ UNCHANGED <<app, endpoint, otherVars, reportType, reportData, fullTranscript, isProcessing,
                 validationErrors, validationWarnings, showPreview, saveDialog, mounted,
                 calls, saving, applied, nCalls, nResets, speechVars>>

\* handleEditField after its await; correctAndEnhance returns the corrected
\* text, or the original text when the request failed
handleEditFieldDone ==
  /\ app = "voice" /\ mounted
  /\ endpoint = "up"
  /\ \E e \in edits, requestOk \in BOOLEAN :
       LET correctedValue == IF requestOk THEN AsValue(CorrectText(e.newValue))
                                          ELSE AsValue(e.newValue)
           updatedData == [e.currentData EXCEPT ![e.fieldPath] = correctedValue]
           validation == validateExtractedData(updatedData, reportType)
       IN /\ reportData' = updatedData
          /\ validationErrors' = validation.errors
          /\ validationWarnings' = validation.warnings
          /\ mounted' = RenderOk(validation.errors, validation.warnings)
          /\ edits' = edits \ {e}
  /\ printed' = << >> /\ signal' = NoSignal
  /\ UNCHANGED <<app, endpoint, otherVars, reportType, fullTranscript, isProcessing, showPreview,
                 saveDialog, calls, saving, applied, nCalls, nEdits, nResets, speechVars>>

\* handleReset; the button is disabled while isProcessing
handleReset ==
  /\ VoiceUsable
  /\ ~isProcessing
  /\ nResets < MaxResets
  /\ nResets' = nResets + 1
  /\ fullTranscript' = << >>
  /\ reportData' = EmptyObject
  /\ validationErrors' = << >>
  /\ validationWarnings' = << >>
  /\ showPreview' = FALSE
  /\ transcript' = << >>
  /\ interimTranscript' = << >>
  /\ printed' = << >> /\ signal' = NoSignal
  /\ UNCHANGED <<app, endpoint, otherVars, reportType, isProcessing, saveDialog, mounted, calls, edits,
                 saving, applied, nCalls, nEdits, isListening, nFinal>>

\* handleSave up to its await; the button is disabled while isProcessing or
\* when there are validation errors
handleSaveStart ==
  /\ VoiceUsable
  /\ ~isProcessing
  /\ Len(validationErrors) = 0
  /\ isProcessing' = TRUE
  /\ saving' = TRUE
  /\ printed' = << >> /\ signal' = NoSignal
  /\ UNCHANGED <<app, endpoint, otherVars, reportType, reportData, fullTranscript, validationErrors,
                 validationWarnings, showPreview, saveDialog, mounted, calls, edits,
                 applied, nCalls, nEdits, nResets, speechVars>>

\* handleSave after its one second timer
handleSaveDone ==
  /\ app = "voice" /\ mounted
  /\ saving
  /\ saving' = FALSE
  /\ saveDialog' = TRUE
  /\ isProcessing' = FALSE
  /\ printed' = << >> /\ signal' = NoSignal
  /\ UNCHANGED <<app, endpoint, otherVars, reportType, reportData, fullTranscript, validationErrors,
                 validationWarnings, showPreview, mounted, calls, edits, applied,
                 nCalls, nEdits, nResets, speechVars>>

\* the "Fermer" button of the save dialog
closeSaveDialog ==
  /\ app = "voice" /\ mounted
  /\ saveDialog
  /\ saveDialog' = FALSE
  /\ printed' = << >> /\ signal' = NoSignal
  /\ UNCHANGED <<app, endpoint, otherVars, reportType, reportData, fullTranscript, isProcessing,
                 validationErrors, validationWarnings, showPreview, mounted, calls, edits,
                 saving, applied, nCalls, nEdits, nResets, speechVars>>

\* handlePrint; the button is disabled unless the preview is shown and there
\* is no validation error
handlePrint ==
  /\ VoiceUsable
  /\ showPreview
  /\ Len(validationErrors) = 0
  /\ printed' = <<[by |-> "VoiceReportCreator.handlePrint",
                   text |-> [f \in FieldPaths |->
                               IF f \in PrintedFields THEN OrEmpty(reportData[f]) ELSE ABSENT]]>>
  /\ signal' = NoSignal
  /\ UNCHANGED <<app, endpoint, otherVars, reportType, reportData, fullTranscript, isProcessing,
                 validationErrors, validationWarnings, showPreview, saveDialog, mounted,
                 calls, edits, saving, applied, nCalls, nEdits, nResets, speechVars>>

\* the remote service stops answering: requests in flight and later ones
\* stay pending (fetch is called without a timeout or an abort signal)
EndpointStalls ==
  /\ endpoint = "up"
  /\ endpoint' = "stalled"
  /\ printed' = << >> /\ signal' = NoSignal
  /\ UNCHANGED <<app, voiceVars, speechVars, otherVars>>

(***************************************************************************)
(* PrescriptionData (frontend/lib/models/prescription_data.dart)           *)
(***************************************************************************)
PrescriptionFields == <<"patientName", "patientAge", "diagnosis", "medication",
                        "dosage", "duration", "specialInstructions">>
PrescriptionKeys == {PrescriptionFields[i] : i \in 1..Len(PrescriptionFields)}

\* PrescriptionData(): every field null
EmptyPrescription == [k \in PrescriptionKeys |-> ABSENT]

\* the French label getMissingRequiredFields pairs with each field
Label(field) ==
  CASE field = "patientName" -> "Nom du patient"
    [] field = "patientAge" -> "Âge/Date de naissance"
    [] field = "diagnosis" -> "Diagnostic"
    [] field = "medication" -> "Médicament"
    [] field = "dosage" -> "Posologie"
    [] field = "duration" -> "Durée du traitement"
    [] field = "specialInstructions" -> "Instructions spéciales"

\* the fields of the list that are null or empty in data, in the list's order
RECURSIVE MissingFrom(_, _)
MissingFrom(fields, data) ==
  IF fields = << >> THEN << >>
  ELSE (IF data[Head(fields)] = ABSENT \/ data[Head(fields)] = EMPTY
        THEN <<Head(fields)>> ELSE << >>) \o MissingFrom(Tail(fields), data)

\* getMissingRequiredFields(): the labels of the unset fields, in the fixed order
getMissingRequiredFields(data) ==
  LET missing == MissingFrom(PrescriptionFields, data)
  IN [i \in 1..Len(missing) |-> Label(missing[i])]

\* isComplete() when only null counted as unset
isCompleteNullOnly(data) == \A k \in PrescriptionKeys : data[k] # ABSENT

\* isComplete()
isComplete(data) == getMissingRequiredFields(data) = << >>

\* PrescriptionData.fromJson(json)
fromJson(json) == [k \in PrescriptionKeys |-> json[k]]

\* _formatPrescriptionText(data): `${value ?? 'N/A'}` per section
formatPrescriptionText(data) ==
  [k \in PrescriptionKeys |-> IF data[k] = ABSENT THEN <<"N/A">> ELSE data[k]]

(***************************************************************************)
(* The prescription backend (POST /api/chat, POST /api/generate-pdf).      *)
(* Its code is not part of the sources at hand; it is modelled from the    *)
(* design: extract a partial record, merge it into the session, validate.  *)
(***************************************************************************)
MsgPatient == "Patient Jean Dupont, 45 ans, hypertension"
MsgTreatment == "Lisinopril 10mg une fois par jour, 3 mois, à jeun"
MsgRename == "Le patient s'appelle Marie Curie"
MsgHello == "Bonjour"

ChatMessages == {MsgPatient, MsgTreatment, MsgRename, MsgHello}

\* extract(text): the partial record of a message
BackendExtract(message) ==
  [k \in PrescriptionKeys |->
     CASE message = MsgPatient /\ k = "patientName" -> <<"Jean Dupont">>
       [] message = MsgPatient /\ k = "patientAge" -> <<"45 ans">>
       [] message = MsgPatient /\ k = "diagnosis" -> <<"hypertension">>
       [] message = MsgTreatment /\ k = "medication" -> <<"Lisinopril">>
       [] message = MsgTreatment /\ k = "dosage" -> <<"10mg une fois par jour">>
       [] message = MsgTreatment /\ k = "duration" -> <<"3 mois">>
       [] message = MsgTreatment /\ k = "specialInstructions" -> <<"à jeun">>
       [] message = MsgRename /\ k = "patientName" -> <<"Marie Curie">>
       [] message = MsgHello /\ k = "diagnosis" -> EMPTY
       [] OTHER -> ABSENT]

\* merge(existing, incoming): absent and empty incoming values keep the
\* existing value, any other incoming value replaces it
BackendMerge(existing, incoming) ==
  [k \in PrescriptionKeys |->
     IF incoming[k] = ABSENT \/ incoming[k] = EMPTY THEN existing[k] ELSE incoming[k]]

\* the body of the 200 answer of /api/chat for a session record
ChatResponse(data) ==
  [prescription_data |-> data,
   is_complete |-> isComplete(data),
   missing_fields |-> MissingFrom(PrescriptionFields, data)]

(***************************************************************************)
(* ChatScreen (_ChatScreenState)                                           *)
(***************************************************************************)
\* an entry of _messages: its role, what it says, and the fields it names
ChatMessage(role, kind, fields) == [role |-> role, kind |-> kind, fields |-> fields]

ChatInit ==
  /\ currentStage = "informationCollection"
  /\ prescriptionData = EmptyPrescription
  /\ isLoading = FALSE
  /\ messages = <<ChatMessage("system", "welcome", << >>)>>
  /\ generatedPrescription = << >>
  /\ signed = FALSE
  /\ chats = {}
  /\ pdfCalls = [png |-> 0, request |-> 0]
  /\ session = EmptyPrescription
  /\ nTurns = 0
  /\ conv = [id |-> 1, turns |-> 0]

chatFrame == <<app, endpoint, voiceVars, speechVars, formVars, localVars, valVars, mergeVars, compVars>>

\* _sendMessage up to its await; the send button and the text field are
\* disabled while _isLoading
sendMessageStart ==
  /\ app = "chat"
  /\ currentStage = "informationCollection"
  /\ ~isLoading
  /\ nTurns < MaxTurns
  /\ \E message \in ChatMessages :
       chats' = chats \cup {[id |-> nTurns + 1, message |-> message]}
  /\ nTurns' = nTurns + 1
  /\ conv' = [conv EXCEPT !.turns = @ + 1]
  /\ messages' = <<ChatMessage("user", "message", << >>)>>
  /\ isLoading' = TRUE
  /\ printed' = << >> /\ signal' = NoSignal
  /\ UNCHANGED <<chatFrame, currentStage, prescriptionData, generatedPrescription, signed,
                 pdfCalls, session>>

\* _sendMessage after its await: the backend merged the message into the
\* session and answered 200
sendMessageOk ==
  /\ app = "chat"
  /\ endpoint = "up"
  /\ \E c \in chats :
       LET merged == BackendMerge(session, BackendExtract(c.message))
           response == ChatResponse(merged)
       IN /\ session' = merged
          /\ prescriptionData' = fromJson(response.prescription_data)
          /\ messages' = <<ChatMessage("assistant", "response", << >>)>> \o
                           (IF response.is_complete
                            THEN <<ChatMessage("system", "complete", << >>)>>
                            ELSE IF response.missing_fields # << >>
                            THEN <<ChatMessage("system", "Informations manquantes",
                                               response.missing_fields)>>
                            ELSE << >>)
          /\ chats' = chats \ {c}
  /\ isLoading' = FALSE
  /\ printed' = << >> /\ signal' = NoSignal
  /\ UNCHANGED <<chatFrame, conv, currentStage, generatedPrescription, signed, pdfCalls, nTurns>>

\* _sendMessage after its await: the request failed (503, 504, another
\* status, no connection); ApiService.chat throws and the catch reports it
sendMessageError ==
  /\ app = "chat"
  /\ endpoint = "up"
  /\ \E c \in chats : chats' = chats \ {c}
  /\ messages' = <<ChatMessage("assistant", "Erreur", << >>)>>
  /\ isLoading' = FALSE
  /\ printed' = << >> /\ signal' = NoSignal
  /\ UNCHANGED <<chatFrame, conv, currentStage, prescriptionData, generatedPrescription, signed,
                 pdfCalls, session, nTurns>>

\* _generatePrescription; the action is shown only in the collection stage
\* with a complete record, and disabled while _isLoading
generatePrescription ==
  /\ app = "chat"
  /\ currentStage = "informationCollection"
  /\ isComplete(prescriptionData)
  /\ ~isLoading
  /\ generatedPrescription' = <<formatPrescriptionText(prescriptionData)>>
  /\ currentStage' = "review"
  /\ isLoading' = FALSE
  /\ printed' = << >> /\ signal' = NoSignal
  /\ UNCHANGED <<chatFrame, conv, prescriptionData, messages, signed, chats, pdfCalls, session, nTurns>>

proceedToSigning ==
  /\ app = "chat"
  /\ currentStage = "review"
  /\ currentStage' = "signing"
  /\ printed' = << >> /\ signal' = NoSignal
  /\ UNCHANGED <<chatFrame, conv, prescriptionData, isLoading, messages, generatedPrescription,
                 signed, chats, pdfCalls, session, nTurns>>

\* the Back button of the signing stage, disabled while _isLoading
backToReview ==
  /\ app = "chat"
  /\ currentStage = "signing"
  /\ ~isLoading
  /\ currentStage' = "review"
  /\ printed' = << >> /\ signal' = NoSignal
  /\ UNCHANGED <<chatFrame, conv, prescriptionData, isLoading, messages, generatedPrescription,
                 signed, chats, pdfCalls, session, nTurns>>

\* the app bar arrow, shown outside the collection stage
backToCollection ==
  /\ app = "chat"
  /\ currentStage # "informationCollection"
  /\ currentStage' = "informationCollection"
  /\ printed' = << >> /\ signal' = NoSignal
  /\ UNCHANGED <<chatFrame, conv, prescriptionData, isLoading, messages, generatedPrescription,
                 signed, chats, pdfCalls, session, nTurns>>

\* the user draws on, or clears, the signature pad
toggleSignature ==
  /\ app = "chat"
  /\ currentStage = "signing"
  /\ signed' = ~signed
  /\ printed' = << >> /\ signal' = NoSignal
  /\ UNCHANGED <<chatFrame, conv, currentStage, prescriptionData, isLoading, messages,
                 generatedPrescription, chats, pdfCalls, session, nTurns>>

\* _generateAndDownloadPdf up to its first await; the button is disabled
\* while _isLoading, and _isLoading is not yet set while toPngBytes runs
generateAndDownloadPdfStart ==
  /\ app = "chat"
  /\ currentStage = "signing"
  /\ ~isLoading
  /\ pdfCalls.png + pdfCalls.request < MaxPdf
  /\ IF ~isComplete(prescriptionData)
     THEN /\ signal' = "Données incomplètes"
          /\ UNCHANGED pdfCalls
     ELSE /\ signal' = NoSignal
          /\ pdfCalls' = [pdfCalls EXCEPT !.png = @ + 1]
  /\ isLoading' = IF ~isComplete(prescriptionData) THEN FALSE ELSE isLoading
  /\ printed' = << >>
  /\ UNCHANGED <<chatFrame, conv, currentStage, prescriptionData, messages, generatedPrescription,
                 signed, chats, session, nTurns>>

\* toPngBytes answered: without a signature the handler reports it and
\* returns through finally, otherwise it sets _isLoading and posts the request
generateAndDownloadPdfSigned ==
  /\ app = "chat"
  /\ pdfCalls.png > 0
  /\ IF ~signed
     THEN /\ signal' = "Veuillez d'abord signer!"
          /\ pdfCalls' = [pdfCalls EXCEPT !.png = @ - 1]
          /\ isLoading' = FALSE
     ELSE /\ signal' = NoSignal
          /\ pdfCalls' = [pdfCalls EXCEPT !.png = @ - 1, !.request = @ + 1]
          /\ isLoading' = TRUE
  /\ printed' = << >>
  /\ UNCHANGED <<chatFrame, conv, currentStage, prescriptionData, messages, generatedPrescription,
                 signed, chats, session, nTurns>>

\* generatePdf answered: the backend builds the document from the session
\* record, or refuses an incomplete one
generateAndDownloadPdfDone ==
  /\ app = "chat"
  /\ endpoint = "up"
  /\ pdfCalls.request > 0
  /\ pdfCalls' = [pdfCalls EXCEPT !.request = @ - 1]
  /\ IF isComplete(session)
     THEN /\ printed' = <<[by |-> "_generateAndDownloadPdf", text |-> session]>>
          /\ signal' = "Ordonnance générée avec succès!"
     ELSE /\ printed' = << >>
          /\ signal' = "Erreur"
  /\ isLoading' = FALSE
  /\ UNCHANGED <<chatFrame, conv, currentStage, prescriptionData, messages, generatedPrescription,
                 signed, chats, session, nTurns>>

\* generatePdf failed (no connection, 5xx): the catch reports the error
generateAndDownloadPdfError ==
  /\ app = "chat"
  /\ endpoint = "up"
  /\ pdfCalls.request > 0
  /\ pdfCalls' = [pdfCalls EXCEPT !.request = @ - 1]
  /\ printed' = << >>
  /\ signal' = "Erreur"
  /\ isLoading' = FALSE
  /\ UNCHANGED <<chatFrame, conv, currentStage, prescriptionData, messages, generatedPrescription,
                 signed, chats, session, nTurns>>

\* the screen is created again (the app is opened again) for the next
\* conversation: a new _ChatScreenState, its fields at their initial values
\* and the welcome message; no request tells the backend about it
newConversation ==
  /\ app = "chat"
  /\ conv.id < MaxConversations
  /\ chats = {} /\ pdfCalls = [png |-> 0, request |-> 0]
  /\ conv' = [id |-> conv.id + 1, turns |-> 0]
  /\ currentStage' = "informationCollection"
  /\ prescriptionData' = EmptyPrescription
  /\ isLoading' = FALSE
  /\ messages' = <<ChatMessage("system", "welcome", << >>)>>
  /\ generatedPrescription' = << >>
  /\ signed' = FALSE
  /\ printed' = << >> /\ signal' = NoSignal
  /\ UNCHANGED <<chatFrame, chats, pdfCalls, session, nTurns>>

ChatNext ==
  \/ sendMessageStart
  \/ sendMessageOk
  \/ sendMessageError
  \/ generatePrescription
  \/ proceedToSigning
  \/ backToReview
  \/ backToCollection
  \/ toggleSignature
  \/ generateAndDownloadPdfStart
  \/ generateAndDownloadPdfSigned
  \/ generateAndDownloadPdfDone
  \/ generateAndDownloadPdfError
  \/ newConversation

(***************************************************************************)
(* ReportCreator: the form screen over a template (templates/              *)
(* reportTemplates.js), here the scanner template                          *)
(***************************************************************************)
\* the fields of the scanner template
TemplateFields == FieldPaths \ {FFieldStrength, FProbe}

\* its fields marked required: true
TemplateRequired == {FPatientName, FPatientId, FBirthDate, FExamDate, FExamType,
                     FIndication, FFindings, FConclusion}

\* createEmptyReport(reportType).data: field.defaultValue || ''
createEmptyReport ==
  [f \in FieldPaths |->
     CASE f = FExamDate -> <<"today">>
       [] f = FTechnique -> <<"technique-template">>
       [] f \in TemplateFields -> EMPTY
       [] OTHER -> ABSENT]

\* getFieldValue(fieldPath): reportData[...] || ''
getFieldValue(data, f) == IF Falsy(data[f]) THEN EMPTY ELSE data[f]

\* every required field of the template holds a value
FormComplete(data) == \A f \in TemplateRequired : getFieldValue(data, f) # EMPTY

FormValues == {"", "texte"}
FormEditable == TemplateRequired \cup {FTechnique}
FormPrinted == {FPatientName, FExamDate, FExamType, FTechnique, FFindings, FConclusion}

formFrame == <<app, endpoint, voiceVars, speechVars, chatVars, localVars, valVars, mergeVars, compVars>>

\* useState(null) of activeField
NoField == "null"

\* the fields whose microphone button the model follows
DictationTargets == {FFindings, FConclusion}

\* what the user dictates for each field: result[0].transcript
SpeechFor(field) ==
  CASE field = FFindings -> "foie de taille normale"
    [] field = FConclusion -> "examen normal"

FormInit ==
  /\ formData = createEmptyReport
  /\ activeField = NoField
  /\ formListening = "off"
  /\ formTranscript = << >>
  /\ dictatingFor = NoField
  /\ nFormFinal = 0

\* the effect on [transcript, activeField]: with a transcript and an active
\* field, append the transcript to the field and reset the transcript
TranscriptEffect(data, field, text) ==
  IF text # << >> /\ field # NoField
  THEN [data |-> [data EXCEPT ![field] = @ \o text], transcript |-> << >>]
  ELSE [data |-> data, transcript |-> text]

\* handleSpeechToggle(fieldPath), then the effect of the render it causes;
\* isListening stays true from onstart to onend, so stop() leaves it true
\* and startListening returns at once while the recognition is ending
handleSpeechToggle ==
  /\ app = "form"
  /\ \E fieldPath \in DictationTargets :
       IF formListening # "off" /\ activeField = fieldPath
       THEN /\ formListening' = "stopping"
            /\ activeField' = NoField
            /\ UNCHANGED <<formData, formTranscript, dictatingFor>>
       ELSE LET e == TranscriptEffect(formData, fieldPath, formTranscript)
            IN /\ activeField' = fieldPath
               /\ dictatingFor' = fieldPath
               /\ formListening' = IF formListening = "off" THEN "on" ELSE formListening
               /\ formData' = e.data
               /\ formTranscript' = e.transcript
  /\ printed' = << >> /\ signal' = NoSignal
  /\ UNCHANGED <<formFrame, nFormFinal>>

\* recognition.onresult with a final result, while listening or after
\* stop() (which returns the speech captured so far), then the effect
formOnResult ==
  /\ app = "form"
  /\ formListening # "off"
  /\ nFormFinal < MaxFormFinal
  /\ nFormFinal' = nFormFinal + 1
  /\ LET e == TranscriptEffect(formData, activeField,
                               Append(formTranscript, SpeechFor(dictatingFor)))
     IN /\ formData' = e.data
        /\ formTranscript' = e.transcript
  /\ printed' = << >> /\ signal' = NoSignal
  /\ UNCHANGED <<formFrame, activeField, formListening, dictatingFor>>

\* recognition.onend after stop()
formOnEnd ==
  /\ app = "form"
  /\ formListening = "stopping"
  /\ formListening' = "off"
  /\ printed' = << >> /\ signal' = NoSignal
  /\ UNCHANGED <<formFrame, formData, activeField, formTranscript, dictatingFor, nFormFinal>>

\* handleFieldChange(fieldPath, value), from a field's onChange or clearField
handleFieldChange ==
  /\ app = "form"
  /\ \E f \in FormEditable, v \in FormValues :
       formData' = [formData EXCEPT ![f] = AsValue(v)]
  /\ printed' = << >> /\ signal' = NoSignal
  /\ UNCHANGED <<formFrame, activeField, formListening, formTranscript, dictatingFor,
                 nFormFinal>>

\* ReportCreator.handlePrint: the Export button carries no condition
formHandlePrint ==
  /\ app = "form"
  /\ printed' = <<[by |-> "ReportCreator.handlePrint",
                   text |-> [f \in FieldPaths |->
                               IF f \in FormPrinted THEN getFieldValue(formData, f)
                               ELSE ABSENT]]>>
  /\ signal' = NoSignal
  /\ UNCHANGED <<formFrame, formVars>>

FormNext ==
  \/ handleFieldChange
  \/ formHandlePrint
  \/ handleSpeechToggle
  \/ formOnResult
  \/ formOnEnd

(***************************************************************************)
(* processWithLocalLLM / processTranscriptLocally (services/LLMService)    *)
(***************************************************************************)
THROWN == <<"<TypeError>">>

\* extractPattern(text, pattern): match ? match[1].trim() : '[MANQUANT]';
\* match[1] is undefined for a pattern without a group, and .trim() throws
extractPattern(text, pat) ==
  IF MatchIndex(text, pat) = 0 THEN MANQUANT
  ELSE IF PatHasGroup(pat) THEN Group1(text, pat)
  ELSE THROWN

LocalFields(text, examType) ==
  [f \in FieldPaths |->
     CASE f = FPatientName -> extractPattern(text, PatName)
       [] f = FPatientId -> extractPattern(text, PatId)
       [] f = FBirthDate -> extractPattern(text, PatBirth)
       [] f = FExamDate -> <<"today">>
       [] f = FExamType -> <<examType>>
       [] f = FIndication -> extractPattern(text, PatIndication)
       [] f = FContrast -> extractPattern(text, PatContrastLocal)
       [] f = FTechnique -> extractPattern(text, PatTechnique)
       [] f = FFindings -> extractPattern(text, PatFindingsLocal)
       [] f = FMeasurements -> extractPattern(text, PatMeasurements)
       [] f = FConclusion -> extractPattern(text, PatConclusionLocal)
       [] OTHER -> ABSENT]

LocalIdle == [status |-> "idle", data |-> EmptyObject, missingFields |-> {}]

\* processTranscriptLocally(transcript, examType): the record and its
\* missingFields, or the exception of an extractPattern call
processTranscriptLocally(text, examType) ==
  LET data == LocalFields(text, examType)
  IN IF \E f \in FieldPaths : data[f] = THROWN
     THEN [status |-> "threw", data |-> EmptyObject, missingFields |-> {}]
     ELSE [status |-> "returned", data |-> data,
           missingFields |-> {f \in FieldPaths :
                                data[f] # ABSENT /\ (Falsy(data[f]) \/ data[f] = MANQUANT)}]

LocalUtterances == {UPatientFull, UConclusion, UContrast}

LocalInputs ==
  UNION {[1..n -> LocalUtterances] : n \in 0..MaxLocalLen}

LocalInit ==
  /\ localInput \in (IF app = "local" THEN LocalInputs ELSE {<< >>})
  /\ localResult = LocalIdle

\* processWithLocalLLM(transcript, examType) with no remote API configured
processWithLocalLLM ==
  /\ app = "local"
  /\ localResult = LocalIdle
  /\ localResult' = processTranscriptLocally(localInput, "scanner")
  /\ printed' = << >> /\ signal' = NoSignal
  /\ UNCHANGED <<app, endpoint, voiceVars, speechVars, chatVars, formVars, valVars, mergeVars, compVars,
                 localInput>>

LocalNext == processWithLocalLLM

(***************************************************************************)
(* RAGService.validateExtractedData as a function of its arguments         *)
(***************************************************************************)
ValIdle == [isValid |-> FALSE, errors |-> << >>, warnings |-> << >>, ran |-> FALSE]

\* the values a field of the validated record is drawn from
ValChoices(f) ==
  CASE f = FPatientName -> {ABSENT, EMPTY, MANQUANT, <<"Jean Dupont">>, <<"X9">>}
    [] f = FPatientId -> {MANQUANT, <<"12345">>, <<"x9">>}
    [] f = FBirthDate -> {MANQUANT, <<"01/02/1980">>, <<"today">>}
    [] f = FIndication -> {ABSENT, <<"douleur abdominale">>}
    [] f = FTechnique -> {MANQUANT, <<"technique-scanner">>}
    [] f = FFindings -> {EMPTY, <<"foie de taille normale">>}
    [] f = FConclusion -> {MANQUANT, <<"examen normal sans anomalie décelable">>}
    [] f = FFieldStrength -> {ABSENT, <<"1.5T">>}
    [] f = FProbe -> {ABSENT, <<"sonde convexe">>}
    [] f = FMeasurements -> {EMPTY, <<"12 mm">>}

ValInputs ==
  {[f \in FieldPaths |->
      CASE f = FPatientName -> name
        [] f = FPatientId -> id
        [] f = FBirthDate -> birth
        [] f = FIndication -> indication
        [] f = FTechnique -> technique
        [] f = FFindings -> findings
        [] f = FConclusion -> conclusion
        [] f = FFieldStrength -> strength
        [] f = FProbe -> probe
        [] f = FMeasurements -> measurements
        [] f = FExamDate -> <<"today">>
        [] f = FExamType -> <<"scanner">>
        [] OTHER -> <<"Aucun">>] :
     name \in ValChoices(FPatientName), id \in ValChoices(FPatientId),
     birth \in ValChoices(FBirthDate), indication \in ValChoices(FIndication),
     technique \in ValChoices(FTechnique), findings \in ValChoices(FFindings),
     conclusion \in ValChoices(FConclusion), strength \in ValChoices(FFieldStrength),
     probe \in ValChoices(FProbe), measurements \in ValChoices(FMeasurements)}

ValidateInit ==
  /\ valType \in (IF app = "validate" THEN KnownExamTypes \cup {"irm"} ELSE {"scanner"})
  /\ valInput \in (IF app = "validate" THEN ValInputs ELSE {EmptyObject})
  /\ valResult = ValIdle

\* a call of RAGService.validateExtractedData(data, examType)
callValidateExtractedData ==
  /\ app = "validate"
  /\ ~valResult.ran
  /\ LET r == validateExtractedData(valInput, valType)
     IN valResult' = [isValid |-> r.isValid, errors |-> r.errors, warnings |-> r.warnings,
                      ran |-> TRUE]
  /\ printed' = << >> /\ signal' = NoSignal
  /\ UNCHANGED <<app, endpoint, voiceVars, speechVars, chatVars, formVars, localVars,
                 mergeVars, compVars, valType, valInput>>

ValidateNext == callValidateExtractedData

(***************************************************************************)
(* PrescriptionData.copyWith as a function of its receiver and arguments   *)
(***************************************************************************)
\* copyWith with the given value appended to the held one
copyWithAppending(this, args) ==
  [k \in PrescriptionKeys |->
     IF args[k] = ABSENT THEN this[k]
     ELSE IF this[k] = ABSENT THEN args[k]
     ELSE this[k] \o args[k]]

\* copyWith with every argument stored as given
copyWithOverwriting(this, args) == args

\* this.copyWith(...): `argument ?? this.field` for each field
copyWith(this, args) ==
  [k \in PrescriptionKeys |-> IF args[k] # ABSENT THEN args[k] ELSE this[k]]

\* the records copyWith is tried on
MergeRecords ==
  {[k \in PrescriptionKeys |->
      CASE k = "patientName" -> name
        [] k = "diagnosis" -> diagnosis
        [] k = "medication" -> medication
        [] OTHER -> ABSENT] :
     name \in {ABSENT, EMPTY, <<"Jean Dupont">>, <<"Marie Curie">>},
     diagnosis \in {ABSENT, EMPTY, <<"hypertension">>},
     medication \in {ABSENT, <<"Lisinopril">>}}

MergeInit ==
  /\ mergeThis \in (IF app = "merge" THEN MergeRecords ELSE {EmptyPrescription})
  /\ mergeArgs \in (IF app = "merge" THEN MergeRecords ELSE {EmptyPrescription})
  /\ mergeOut = << >>

\* a call of copyWith with mergeArgs, on mergeThis or on the record the
\* previous call returned
callCopyWith ==
  /\ app = "merge"
  /\ Len(mergeOut) < MaxMerges
  /\ LET receiver == IF mergeOut = << >> THEN mergeThis ELSE mergeOut[Len(mergeOut)]
     IN mergeOut' = Append(mergeOut, copyWith(receiver, mergeArgs))
  /\ printed' = << >> /\ signal' = NoSignal
  /\ UNCHANGED <<app, endpoint, voiceVars, speechVars, chatVars, formVars, localVars,
                 valVars, compVars, mergeThis, mergeArgs>>

MergeNext == callCopyWith

(***************************************************************************)
(* PrescriptionData.getMissingRequiredFields and isComplete as functions   *)
(* of the record                                                           *)
(***************************************************************************)
CompIdle == [missing |-> << >>, complete |-> FALSE, ran |-> FALSE]

\* a value for each field
SampleValue(k) ==
  CASE k = "patientName" -> <<"Jean Dupont">>
    [] k = "patientAge" -> <<"45 ans">>
    [] k = "diagnosis" -> <<"hypertension">>
    [] k = "medication" -> <<"Lisinopril">>
    [] k = "dosage" -> <<"10mg une fois par jour">>
    [] k = "duration" -> <<"3 mois">>
    [] k = "specialInstructions" -> <<"à jeun">>

\* the records the two methods are tried on: each field null, '' or set
CompRecords ==
  {[k \in PrescriptionKeys |-> IF c[k] = "null" THEN ABSENT
                                ELSE IF c[k] = "empty" THEN EMPTY ELSE SampleValue(k)] :
     c \in [PrescriptionKeys -> {"null", "empty", "set"}]}

CompInit ==
  /\ compInput \in (IF app = "complete" THEN CompRecords ELSE {EmptyPrescription})
  /\ compResult = CompIdle

\* a call of getMissingRequiredFields() and of isComplete() on compInput
callIsComplete ==
  /\ app = "complete"
  /\ ~compResult.ran
  /\ compResult' = [missing |-> getMissingRequiredFields(compInput),
                    complete |-> isComplete(compInput),
                    ran |-> TRUE]
  /\ printed' = << >> /\ signal' = NoSignal
  /\ UNCHANGED <<app, endpoint, voiceVars, speechVars, chatVars, formVars, localVars,
                 valVars, mergeVars, compInput>>

CompNext == callIsComplete

VoiceNext ==
  \/ handleRecordToggle
  \/ OnResult
  \/ ProcessTranscriptOk
  \/ ProcessTranscriptError
  \/ handleEditFieldStart
  \/ handleEditFieldDone
  \/ handleReset
  \/ handleSaveStart
  \/ handleSaveDone
  \/ closeSaveDialog
  \/ handlePrint

vars == <<app, printed, signal, endpoint, voiceVars, speechVars, chatVars, formVars, localVars,
          valVars, mergeVars, compVars>>

Apps == {"voice", "chat", "form", "local", "validate", "merge", "complete"}

InitOf(apps) ==
  /\ app \in apps
  /\ printed = << >>
  /\ signal = NoSignal
  /\ endpoint = "up"
  /\ ChatInit
  /\ FormInit
  /\ LocalInit
  /\ ValidateInit
  /\ MergeInit
  /\ CompInit
  /\ VoiceInit
  /\ SpeechInit

Init == InitOf(Apps)

Next ==
  \/ VoiceNext
  \/ ChatNext
  \/ FormNext
  \/ LocalNext
  \/ ValidateNext
  \/ MergeNext
  \/ CompNext

Spec == Init /\ [][Next]_vars

(***************************************************************************)
(* The validator on its own, over the records drawn by ValidateInit        *)
(***************************************************************************)
ValidateOnlyInit == InitOf({"validate"})

ValidateSpec == ValidateOnlyInit /\ [][ValidateNext]_vars

(***************************************************************************)
(* copyWith on its own, over the records drawn by MergeInit                *)
(***************************************************************************)
(***************************************************************************)
(* The voice screen on its own, and the two conversational screens         *)
(***************************************************************************)
VoiceOnlyInit == InitOf({"voice"})

VoiceSpec == VoiceOnlyInit /\ [][VoiceNext]_vars

TurnInit == InitOf({"voice", "chat"})

TurnNext == VoiceNext \/ ChatNext

TurnSpec == TurnInit /\ [][TurnNext]_vars

CompOnlyInit == InitOf({"complete"})

CompSpec == CompOnlyInit /\ [][CompNext]_vars

MergeOnlyInit == InitOf({"merge"})

MergeSpec == MergeOnlyInit /\ [][MergeNext]_vars

(***************************************************************************)
(* The screens with a remote service that may stop answering.  A response  *)
(* that has arrived is handled, and a timer that was set fires: the        *)
(* continuations of a settled fetch, Future or setTimeout are run by the   *)
(* event loop.                                                             *)
(***************************************************************************)
FairInit == InitOf({"voice", "chat"})

FairNext ==
  \/ VoiceNext
  \/ ChatNext
  \/ EndpointStalls

FairSpec ==
  /\ FairInit
  /\ [][FairNext]_vars
  /\ WF_vars(ProcessTranscriptOk \/ ProcessTranscriptError)
  /\ WF_vars(handleSaveDone)
  /\ WF_vars(sendMessageOk \/ sendMessageError)
  /\ WF_vars(generateAndDownloadPdfSigned)
  /\ WF_vars(generateAndDownloadPdfDone \/ generateAndDownloadPdfError)

(***************************************************************************)
(* Properties                                                              *)
(***************************************************************************)
\* a value that is neither absent, nor empty, nor the [MANQUANT] marker
Present(value) == ~IsMissing(value)

\* C1: the application of a turn's result never turns a field of the record
\* that holds a value into an absent or empty one (reportData under
\* processTranscript, _prescriptionData under _sendMessage); stated for the
\* sessions in which no field was edited by hand and nothing was reset.
C1_RecordNeverLosesValue ==
  [][/\ (app = "voice" /\ applied' # applied /\ nEdits = 0 /\ nResets = 0) =>
          \A f \in FieldPaths : Present(reportData[f]) => Present(reportData'[f])
     /\ (app = "chat" /\ chats' # chats /\ nTurns' = nTurns) =>
          \A k \in PrescriptionKeys :
            Present(prescriptionData[k]) => Present(prescriptionData'[k])]_vars

\* C2: at most one turn of a session is in flight at any time.
C2_AtMostOneTurnInFlight ==
  /\ Cardinality(calls) <= 1
  /\ Cardinality(chats) <= 1

\* C3: the results of the turns are applied to the record in the order the
\* turns were submitted.
C3_AppliedInSubmissionOrder == [][applied' >= applied]_vars

\* the record a screen exports is complete
RecordComplete ==
  CASE app = "voice" -> validateExtractedData(reportData, reportType).isValid
    [] app = "chat" -> isComplete(session)
    [] app = "form" -> FormComplete(formData)
    [] OTHER -> FALSE

\* C4: an export delivers a document only for a complete record.
C4_ExportOnlyWhenComplete == printed # << >> => RecordComplete

\* the schema has a critical field the record leaves absent or empty
CriticalMissing(data, examType) ==
  LET defs == requiredFields(examType)
  IN \E i \in 1..Len(defs) :
       defs[i].importance = Critique /\ ~Present(data[defs[i].path])

\* a field of the record holds a value its format rule rejects
HasFormatError(data, examType) ==
  LET defs == requiredFields(examType)
  IN \E i \in 1..Len(defs) :
       /\ Present(data[defs[i].path])
       /\ defs[i].validation # NoValidation
       /\ ~RegexTest(defs[i].validation, data[defs[i].path])

\* C5: validation answers isValid exactly when no critical field is absent
\* or empty and no field has a format error, whatever the recommended and
\* optional fields hold.
C5_IsValidIffCriticalPresentAndWellFormed ==
  valResult.ran =>
    (valResult.isValid <=>
       (~CriticalMissing(valInput, valType) /\ ~HasFormatError(valInput, valType)))

\* C5 witness: a validated record with all critical fields well-formed and
\* a recommended field missing, found valid
C5_Witness ==
  /\ valResult.ran
  /\ valType = "scanner"
  /\ valResult.isValid
  /\ ~Present(valInput[FTechnique])
  /\ Len(valResult.warnings) > 0

\* C6: the session is presented as complete exactly when the current record
\* validates as complete; stated for the sessions in which no field was
\* edited by hand.
C6_PresentedCompleteIffValid ==
  /\ (app = "voice" /\ mounted /\ reportType \in KnownExamTypes /\ nEdits = 0) =>
       (showPreview <=> validateExtractedData(reportData, reportType).isValid)
  /\ (app = "chat" /\ currentStage # "informationCollection") =>
       isComplete(prescriptionData)

\* C7: when every utterance was a turn of its own and all turns have been
\* applied, the newest one last, a patient name stated by the newest turn
\* is the one the record holds.
C7_NewestValueWins ==
  (/\ app = "voice"
   /\ nCalls >= 2 /\ nCalls = Len(fullTranscript)
   /\ applied = nCalls /\ calls = {}
   /\ nResets = 0 /\ nEdits = 0
   /\ PatIn(PatName, fullTranscript[Len(fullTranscript)]) # "")
  => reportData[FPatientName] = <<PatIn(PatName, fullTranscript[Len(fullTranscript)])>>

\* C8: a turn whose remote call fails is still applied: no processing error
\* is shown and the turn counts as the applied one.
C8_FailureNeverSurfaced ==
  [][(app = "voice" /\ calls' # calls /\ nCalls' = nCalls) =>
       /\ \A i \in 1..Len(validationErrors') : validationErrors'[i] # GeneralError
       /\ \E c \in calls \ calls' : applied' = c.id]_vars

\* C9: local extraction returns a record for every text.
C9_LocalExtractionNeverThrows == localResult.status # "threw"

\* a screen shows its busy state
Busy ==
  \/ app = "voice" /\ mounted /\ isProcessing
  \/ app = "chat" /\ isLoading

\* C10: a busy screen always becomes idle again, even when the remote
\* service never answers.
C10_BusyEventuallyIdle == Busy ~> ~Busy

\* C11: validation of a document type the knowledge base does not hold
\* returns no validation result.
C11_UnknownTypeGivesNoResult ==
  (app = "validate" /\ valType \notin KnownExamTypes) => ~valResult.ran

\* C12: copyWith is idempotent: calling it again with the same arguments on
\* the record it returned gives that record again.
C12_MergeIdempotent ==
  \A i \in 1..Len(mergeOut) : mergeOut[i] = mergeOut[1]

\* C12 witness: a second call, with arguments that changed the record
C12_Witness ==
  /\ Len(mergeOut) >= 2
  /\ mergeOut[1] # mergeThis
  /\ mergeThis # EmptyPrescription

\* C13: copyWith keeps the held value of every field whose argument is
\* absent, whatever the other arguments are.
C13_AbsentKeepsExisting ==
  Len(mergeOut) >= 1 =>
    \A k \in PrescriptionKeys : mergeArgs[k] = ABSENT => mergeOut[1][k] = mergeThis[k]

\* C13 witness: a call that kept a held value for an absent argument and
\* replaced another field
C13_Witness ==
  /\ Len(mergeOut) >= 1
  /\ mergeArgs["patientName"] = ABSENT
  /\ mergeThis["patientName"] = <<"Jean Dupont">>
  /\ mergeOut[1]["patientName"] = <<"Jean Dupont">>
  /\ mergeArgs["diagnosis"] = <<"hypertension">>
  /\ mergeThis["diagnosis"] = ABSENT

\* C14: copyWith keeps the value a field holds when the argument for that
\* field is the empty string.
C14_EmptyKeepsExisting ==
  Len(mergeOut) >= 1 =>
    \A k \in PrescriptionKeys :
      (mergeArgs[k] = EMPTY /\ Present(mergeThis[k])) => mergeOut[1][k] = mergeThis[k]

\* the field keys an utterance supplies a value for
KeysStated(u, examType) ==
  {f \in FieldPaths :
     ServerExtract(<<u>>, examType)[f] # ServerExtract(<< >>, examType)[f]}

\* C15: when two turns supplied different field keys and both have been
\* applied, the record is the one the two turns give in the other order.
C15_OrderIndependent ==
  (/\ app = "voice"
   /\ nCalls > 0 /\ applied = nCalls /\ calls = {}
   /\ nResets = 0 /\ nEdits = 0
   /\ Len(fullTranscript) = 2
   /\ KeysStated(fullTranscript[1], reportType)
        \cap KeysStated(fullTranscript[2], reportType) = {})
  => reportData = ServerExtract(<<fullTranscript[2], fullTranscript[1]>>, reportType)

\* C16: after a turn the prompt names exactly one field, the first missing
\* one, when the record is incomplete, and acknowledges completion when it
\* is complete.
C16_PromptRequestsFirstMissing ==
  (/\ app = "chat"
   /\ Len(messages) >= 2
   /\ messages[1].kind = "response")
  => IF isComplete(prescriptionData)
     THEN messages[2].kind = "complete"
     ELSE messages[2].fields = <<Head(MissingFrom(PrescriptionFields, prescriptionData))>>

\* the entries of a list, as a set
Entries(list) == {list[i] : i \in 1..Len(list)}

\* the validation result reports the field as missing
ReportedMissing(def) ==
  \/ MissingError(def) \in Entries(valResult.errors)
  \/ MissingWarning(def) \in Entries(valResult.warnings)

\* C17: validation reports every schema field whose value is absent or
\* empty as missing, whatever the field's importance tier.
C17_EveryMissingFieldReported ==
  (valResult.ran /\ valType \in KnownExamTypes) =>
    LET defs == requiredFields(valType)
    IN \A i \in 1..Len(defs) :
         Falsy(valInput[defs[i].path]) => ReportedMissing(defs[i])

\* C18: a present value that fails its field's format rule gets a format
\* error and is not reported missing, and no field is reported both missing
\* and format-invalid in one validation result.
C18_FormatErrorDistinctFromMissing ==
  (valResult.ran /\ valType \in KnownExamTypes) =>
    LET defs == requiredFields(valType)
    IN \A i \in 1..Len(defs) :
         /\ (/\ Present(valInput[defs[i].path])
             /\ defs[i].validation # NoValidation
             /\ ~RegexTest(defs[i].validation, valInput[defs[i].path]))
            => (/\ FormatError(defs[i]) \in Entries(valResult.errors)
                /\ ~ReportedMissing(defs[i]))
         /\ ~(/\ FormatError(defs[i]) \in Entries(valResult.errors)
              /\ ReportedMissing(defs[i]))

\* C18 witness: a scanner record whose patient name is present but rejected
\* by the name rule, validated with a format error for the name while
\* another field of the same record is reported missing
C18_Witness ==
  /\ valResult.ran
  /\ valType = "scanner"
  /\ valInput[FPatientName] = <<"X9">>
  /\ valInput[FConclusion] = MANQUANT
  /\ FormatError(FieldDef(FPatientName, Critique, ValName)) \in Entries(valResult.errors)
  /\ MissingError(FieldDef(FConclusion, Critique, NoValidation)) \in Entries(valResult.errors)

\* C19: at every moment of a session the record holds every key of its
\* schema: in the voice screen and in the form, each field of the report
\* template is a key of the record, holding a value or the empty string.
C19_RecordHasEveryKey ==
  /\ (app = "voice" /\ mounted) => \A f \in TemplateFields : reportData[f] # ABSENT
  /\ app = "form" => \A f \in TemplateFields : formData[f] # ABSENT

\* C20: a delivered document shows every field it is made of with a value
\* or a "not provided" marker, never blank.
C20_NoFieldRenderedBlank ==
  \A i \in 1..Len(printed) :
    \A f \in DOMAIN printed[i].text : printed[i].text[f] # EMPTY

\* the recognizers of the development endpoint
ServerPatterns == {PatName, PatId, PatBirth, PatIndication, PatFindingsServer,
                   PatMeasurements, PatConclusionServer}

\* the pieces of text a value can take from the dictated text: its
\* utterances and what a recognizer captures inside one of them
SpokenPieces(text) ==
  {text[i] : i \in 1..Len(text)} \cup
  {PatIn(pat, text[i]) : pat \in ServerPatterns, i \in 1..Len(text)}

\* the fields extraction fills from the dictation
ExtractedFields == {FPatientName, FPatientId, FBirthDate, FIndication, FTechnique,
                    FFindings, FMeasurements, FConclusion}

\* C21: once the turns of a session are applied (no reset, no manual edit),
\* each field extraction fills holds text taken from the dictation, or is
\* left blank (empty or the missing sentinel); none holds a default or
\* boilerplate value.
C21_ExtractedValuesAreSpoken ==
  (/\ app = "voice"
   /\ nCalls > 0 /\ applied = nCalls /\ calls = {}
   /\ nResets = 0 /\ nEdits = 0)
  => \A f \in ExtractedFields :
       \/ reportData[f] \in {EMPTY, MANQUANT}
       \/ \A i \in 1..Len(reportData[f]) : reportData[f][i] \in SpokenPieces(fullTranscript)

\* the fields of the record that are null or empty, in the fixed order
UnsetFields(data) ==
  SelectSeq(PrescriptionFields, LAMBDA k : data[k] = ABSENT \/ data[k] = EMPTY)

\* C22: a prescription record is complete exactly when its seven fields are
\* all non-null and non-empty, and the missing list names exactly the unset
\* fields, in the fixed order; with only patientName, patientAge and
\* diagnosis set the record is incomplete and medication is the first
\* missing field.
C22_CompleteIffAllSevenSet ==
  compResult.ran =>
    /\ compResult.complete <=>
         \A k \in PrescriptionKeys : compInput[k] # ABSENT /\ compInput[k] # EMPTY
    /\ Len(compResult.missing) = Len(UnsetFields(compInput))
    /\ \A i \in 1..Len(compResult.missing) :
         compResult.missing[i] = Label(UnsetFields(compInput)[i])
    /\ (UnsetFields(compInput) = <<"medication", "dosage", "duration", "specialInstructions">>)
         => (~compResult.complete /\ Head(compResult.missing) = "Médicament")

\* C22 witness: the two methods called on a record with only patientName,
\* patientAge and diagnosis set, one of the others being the empty string
C22_Witness ==
  /\ compResult.ran
  /\ UnsetFields(compInput) = <<"medication", "dosage", "duration", "specialInstructions">>
  /\ compInput["dosage"] = EMPTY
  /\ ~compResult.complete
  /\ compResult.missing[1] = "Médicament"

\* C23: sessions are independent: the record the backend holds for the
\* conversation on screen comes from that conversation's turns only, so as
\* long as the conversation has sent no turn its session record is empty.
C23_SessionsIndependent ==
  (app = "chat" /\ conv.turns = 0) => session = EmptyPrescription

\* the stages that follow the collection of the record
LaterStages == {"review", "signing"}

\* C24: in the review and signing stages the seven required fields of the
\* collected record are non-empty, and no turn is in flight when the screen
\* leaves the collection stage: those stages are entered only through the
\* generate action, from the collection stage, with a complete record.
C24_LaterStagesHoldCompleteRecord ==
  app = "chat" =>
    /\ currentStage \in LaterStages =>
         \A k \in PrescriptionKeys : prescriptionData[k] # ABSENT /\ prescriptionData[k] # EMPTY
    /\ currentStage \in LaterStages => chats = {}

\* C25: after a reset, and as long as no new dictation has been captured,
\* the record, the validation state and the preview stay empty: no
\* extraction started before the reset writes into the state after it
\* (stated for the sessions with no manual field correction).
C25_ResetStaysEmpty ==
  (/\ app = "voice" /\ mounted
   /\ nResets > 0 /\ nEdits = 0
   /\ fullTranscript = << >> /\ transcript = << >> /\ ~isListening)
  => /\ reportData = EmptyObject
     /\ validationErrors = << >>
     /\ validationWarnings = << >>
     /\ ~showPreview

\* C26: in the voice screen the validation state matches the record:
\* validationErrors is empty exactly when validating the current record
\* reports no error.
C26_ValidationMatchesRecord ==
  (app = "voice" /\ mounted) =>
    (validationErrors = << >>
       <=> validateExtractedData(reportData, reportType).errors = << >>)

\* the step ends an extraction call without applying a result
VoiceTurnFails ==
  app = "voice" /\ calls' # calls /\ calls' \subseteq calls /\ applied' = applied

\* the step ends a chat call without an answer of the assistant
ChatTurnFails ==
  app = "chat" /\ chats' # chats /\ chats' \subseteq chats
  /\ messages'[1].kind # "response"

\* C27: a turn whose extraction or chat call fails leaves the record as it
\* was, reports the failure as a validation entry or a message, clears the
\* busy flag and leaves the screen in use.
C27_FailedTurnKeepsRecord ==
  [][/\ VoiceTurnFails =>
          /\ reportData' = reportData
          /\ validationErrors' = <<GeneralError>>
          /\ ~isProcessing'
          /\ mounted'
     /\ ChatTurnFails =>
          /\ prescriptionData' = prescriptionData
          /\ messages' = <<ChatMessage("assistant", "Erreur", << >>)>>
          /\ ~isLoading'
          /\ currentStage' = currentStage]_vars

\* C27 witness: an extraction failed after an earlier one had filled the
\* record: the record is kept, the general error is shown, the flag is clear
C27_Witness ==
  /\ app = "voice" /\ mounted
  /\ nCalls = 2 /\ applied = 1 /\ calls = {}
  /\ validationErrors = <<GeneralError>>
  /\ reportData[FPatientName] = <<"Jean Dupont">>
  /\ ~isProcessing

\* C28: in the form screen, speech dictated for a field is appended to
\* that field only: no field holds speech the user dictated for another
\* field, whatever toggling of dictation and switching of target took place.
C28_SpeechGoesToItsFieldOnly ==
  app = "form" =>
    \A f \in DictationTargets, g \in DictationTargets :
      f # g => \A i \in 1..Len(formData[f]) : formData[f][i] # SpeechFor(g)

\* C29: every utterance is processed as a turn: each time the end of
\* listening adds finalized speech to the accumulated transcript, an
\* extraction of that accumulated transcript is submitted.
C29_EveryUtteranceIsATurn ==
  [][(/\ app = "voice"
      /\ fullTranscript' # fullTranscript
      /\ fullTranscript' # << >>)
     => \E c \in calls' \ calls : c.text = fullTranscript']_vars

\* the finalized speech the screen holds since the last reset: what is
\* accumulated, followed by what the hook still holds
Finalized == fullTranscript \o transcript

====
